---- MODULE Spec2Model ----
(***************************************************************************)
(* A blog server: six actix-web routes over one table of posts reached     *)
(* through sea-orm, plus a not-found fallback (src/src/main.rs).           *)
(*                                                                         *)
(* The table is a set of rows [id, title, text].  A request is a verb, a   *)
(* path (a sequence of segments, each a sequence of characters), a parsed  *)
(* query string and a form body.                                           *)
(*                                                                         *)
(* The server works on several requests at once.  A handler runs without   *)
(* interruption up to a store call it awaits; the store executes each      *)
(* statement atomically, and between two statements of one handler the     *)
(* statements of other requests run.  A handler is therefore one action    *)
(* per store call it awaits: the action holds the code up to and including *)
(* that call, and the last one also the render or redirect that follows.   *)
(* list (num_pages, fetch_page) and delete (find_by_id, delete) are two    *)
(* actions each, every other handler is one.  Between its two actions a    *)
(* request is in flight: what it holds is kept in inflight.                *)
(*                                                                         *)
(* A panic (unwrap/expect on None or Err, arithmetic overflow) aborts the  *)
(* request: no response is produced.  The store is reachable and answers   *)
(* every statement; the errors it reports are the ones its contents cause  *)
(* (an update that matches no row).                                        *)
(***************************************************************************)
EXTENDS Integers, Sequences, FiniteSets, Bags, TLC

VARIABLES
    table,      \* the posts table of the store: a set of rows
    inflight,   \* the requests suspended between two store calls: a bag
    req,        \* the request answered last
    handler,    \* the service the router dispatched it to
    calls,      \* the store calls its handler awaited, in order, each with
                \* the number of rows it found, counted or changed
    outputs,    \* the renders and redirects the handler performed, in order
    resp,       \* the response (kind "aborted": the handler panicked)
    task,       \* the store contents one list request went through
    script      \* a client running create, list, edit, update, list in turn

vars == <<table, inflight, req, handler, calls, outputs, resp, task, script>>

----------------------------------------------------------------------------
(* Bounds of the model. *)

MaxId == 2          \* ids of the posts while the server runs free requests
MaxSkip == 2        \* the next id is at most this far above the largest one
MaxSeed == 5        \* ids of the posts the scripted client can start from
MaxPage == 2        \* page query values are 0..MaxPage
MaxPerPage == 1     \* posts_per_page query values are 0..MaxPerPage

(* Program constant. *)
DEFAULT_POSTS_PER_PAGE == 5

----------------------------------------------------------------------------
(* Values. *)

NONE == -1          \* Option::None of an Option<usize>, NotSet of an ActiveValue
BAD == -2           \* a query value that does not parse as usize

Digits == <<"0", "1", "2", "3", "4", "5", "6", "7", "8", "9">>

IsDigit(c) == \E d \in 1..10 : Digits[d] = c

DigitVal(c) == (CHOOSE d \in 1..10 : Digits[d] = c) - 1

\* The decimal text of n, as it appears in a path segment.
RECURSIVE NatSeg(_)
NatSeg(n) == IF n < 10 THEN <<Digits[n + 1]>>
             ELSE Append(NatSeg(n \div 10), Digits[(n % 10) + 1])

\* u64::MAX = 2^64 - 1 in decimal.
U64MaxDigits == <<"1", "8", "4", "4", "6", "7", "4", "4", "0", "7",
                  "3", "7", "0", "9", "5", "5", "1", "6", "1", "5">>

\* The digits without their leading zeros (none left: the value is 0).
RECURSIVE StripZeros(_)
StripZeros(digits) ==
    IF digits # <<>> /\ Head(digits) = "0" THEN StripZeros(Tail(digits))
    ELSE digits

\* a <= b for two digit sequences of the same length.
RECURSIVE DigitsLeq(_, _)
DigitsLeq(a, b) ==
    IF a = <<>> THEN TRUE
    ELSE IF Head(a) # Head(b) THEN DigitVal(Head(a)) < DigitVal(Head(b))
    ELSE DigitsLeq(Tail(a), Tail(b))

\* The number the digits spell is above u64::MAX: checked_mul or
\* checked_add fails on the way (PosOverflow).  Decided on the digits.
Overflows(digits) ==
    LET s == StripZeros(digits)
    IN  \/ Len(s) > Len(U64MaxDigits)
        \/ Len(s) = Len(U64MaxDigits) /\ ~DigitsLeq(s, U64MaxDigits)

\* The accumulation loop of from_str over digits that fit:
\* result = result * 10 + digit.  (TLC computes it for numbers below 2^31;
\* the ids of the requests in Requests are far below.)
RECURSIVE DigitsValue(_, _)
DigitsValue(seg, acc) ==
    IF seg = <<>> THEN acc
    ELSE DigitsValue(Tail(seg), acc * 10 + DigitVal(Head(seg)))

\* u64::from_str on a path segment: an optional "+", then one or more
\* digits, the number at most u64::MAX.  NONE when the segment does not
\* parse (Empty, InvalidDigit, PosOverflow).
ParseU64(seg) ==
    LET body == IF seg # <<>> /\ Head(seg) = "+" THEN Tail(seg) ELSE seg
    IN  IF body = <<>> THEN NONE
        ELSE IF \E k \in 1..Len(body) : ~IsDigit(body[k]) THEN NONE
        ELSE IF Overflows(body) THEN NONE
        ELSE DigitsValue(StripZeros(body), 0)

SegNew == <<"n", "e", "w">>
SegDelete == <<"d", "e", "l", "e", "t", "e">>
SegStatic == <<"s", "t", "a", "t", "i", "c">>
SegCss == <<"a", ".", "c", "s", "s">>
SegMissing == <<"d", "o", "e", "s", "-", "n", "o", "t", "-", "e", "x", "i", "s", "t">>
SegPadded == <<"0", "1">>
SegPlus == <<"+", "1">>
SegOverflow == <<"1", "8", "4", "4", "6", "7", "4", "4", "0", "7",
                 "3", "7", "0", "9", "5", "5", "1", "6", "1", "6">>

----------------------------------------------------------------------------
(* The store: the posts table behind sea-orm. *)

Min(a, b) == IF a < b THEN a ELSE b

MaxIdOf(tbl) == IF tbl = {} THEN 0
                ELSE CHOOSE m \in {r.id : r \in tbl} : \A r \in tbl : r.id <= m

\* ORDER BY id ASC: the rows as a sequence, smallest id first.
RECURSIVE OrderByAscId(_)
OrderByAscId(rows) ==
    IF rows = {} THEN <<>>
    ELSE LET first == CHOOSE r \in rows : \A q \in rows : r.id <= q.id
         IN  <<first>> \o OrderByAscId(rows \ {first})

\* Faulty variant: the remainder page is forgotten.
NumPagesFloor(tbl, page_size) == Cardinality(tbl) \div page_size

\* Paginator::num_pages: a COUNT query, then
\* (num_items / page_size) + (num_items % page_size > 0).
\* page_size = 0 divides by zero; the caller guards it.
NumPages(tbl, page_size) ==
    LET num_items == Cardinality(tbl)
    IN  (num_items \div page_size)
        + (IF num_items % page_size > 0 THEN 1 ELSE 0)

\* Paginator::fetch_page(page): SELECT ... ORDER BY id ASC
\* LIMIT page_size OFFSET page_size * page  (page is 0-based).
FetchPage(tbl, page_size, page) ==
    LET ordered == OrderByAscId(tbl)
        offset == page_size * page
    IN  SubSeq(ordered, offset + 1, Min(offset + page_size, Len(ordered)))

\* Post::find_by_id(id).one(conn): the rows with that primary key
\* (none, or one).
FindById(tbl, id) == {r \in tbl : r.id = id}

\* The ids an auto-increment primary key can hand to the next insert:
\* an id above every id in the table, the next one or a later one.
NextIds(tbl) == (MaxIdOf(tbl) + 1)..(MaxIdOf(tbl) + MaxSkip)

\* INSERT of an active model whose id is NotSet: the store picks the id.
InsertRow(tbl, am, new_id) ==
    tbl \cup {[id |-> new_id, title |-> am.title, text |-> am.text]}

\* Faulty variant: the UPDATE has no WHERE clause.
UpdateEveryRow(tbl, am) ==
    {[id |-> r.id, title |-> am.title, text |-> am.text] : r \in tbl}

\* UPDATE posts SET title, text WHERE id: every column that is Set.
UpdateRow(tbl, am) ==
    {IF r.id = am.id THEN [id |-> am.id, title |-> am.title, text |-> am.text]
                     ELSE r : r \in tbl}

\* Faulty variant: the DELETE has no WHERE clause.
DeleteEveryRow(tbl, id) == {}

\* DELETE FROM posts WHERE id.
DeleteRow(tbl, id) == {r \in tbl : r.id # id}

\* Faulty variant: an update that matches no row is not an error.
SaveLenient(tbl, am) ==
    IF am.id = NONE
    THEN {[ok |-> TRUE, table |-> InsertRow(tbl, am, i), rows |-> 1] :
            i \in NextIds(tbl)}
    ELSE {[ok |-> TRUE, table |-> UpdateRow(tbl, am),
           rows |-> Cardinality(FindById(tbl, am.id))]}

\* ActiveModel::save: an insert when the primary key is NotSet, an update
\* otherwise.  An update that matches no row is an error.  The result is
\* the set of outcomes [ok, table, rows] the store can produce, rows the
\* number of rows the statement wrote.
Save(tbl, am) ==
    IF am.id = NONE
    THEN {[ok |-> TRUE, table |-> InsertRow(tbl, am, i), rows |-> 1] :
            i \in NextIds(tbl)}
    ELSE IF FindById(tbl, am.id) = {}
         THEN {[ok |-> FALSE, table |-> tbl, rows |-> 0]}
         ELSE {[ok |-> TRUE, table |-> UpdateRow(tbl, am), rows |-> 1]}

----------------------------------------------------------------------------
(* Requests. *)

NoQuery == [page |-> NONE, posts_per_page |-> NONE]

NoForm == [ok |-> FALSE, id |-> 0, title |-> "", text |-> ""]

\* Two form bodies; the second also carries an id field.
Forms == {[ok |-> TRUE, id |-> 0, title |-> "T", text |-> "X"],
          [ok |-> TRUE, id |-> 1, title |-> "New", text |-> "Y"]}

Queries == {[page |-> p, posts_per_page |-> n] :
                p \in {NONE} \cup 0..MaxPage, n \in {NONE} \cup 0..MaxPerPage}
           \cup {[page |-> BAD, posts_per_page |-> NONE]}

IdSegs == {NatSeg(n) : n \in 0..MaxId}

ItemSegs == IdSegs \cup {SegPadded, SegMissing, SegNew}

Request(verb, path, query, form) ==
    [verb |-> verb, path |-> path, query |-> query, form |-> form]

\* The request a client sends to fetch post id for editing.
EditRequest(id) == Request("GET", <<NatSeg(id)>>, NoQuery, NoForm)

Requests ==
    {Request("GET", <<>>, q, NoForm) : q \in Queries}
    \cup {Request("GET", <<s>>, NoQuery, NoForm) :
            s \in ItemSegs \cup {SegStatic, SegPlus, SegOverflow}}
    \cup {Request("GET", p, NoQuery, NoForm) :
            p \in {<<SegStatic, SegCss>>, <<SegDelete, NatSeg(1)>>,
                   <<SegMissing, SegMissing>>}}
    \cup {Request("POST", <<>>, NoQuery, f) : f \in Forms \cup {NoForm}}
    \cup {Request("POST", <<s>>, NoQuery, f) : s \in ItemSegs, f \in Forms}
    \cup {Request("POST", <<NatSeg(1)>>, NoQuery, NoForm)}
    \cup {Request("POST", <<SegDelete, s>>, NoQuery, NoForm) :
            s \in IdSegs \cup {SegMissing}}
    \cup {Request("POST", p, NoQuery, NoForm) :
            p \in {<<SegStatic, SegCss>>, <<SegMissing, SegMissing>>}}
    \cup {Request("PUT", p, NoQuery, NoForm) : p \in {<<>>, <<NatSeg(1)>>}}

----------------------------------------------------------------------------
(* Routing: the services in registration order; the first whose pattern    *)
(* and method guard accept the request serves it, the default service      *)
(* (not_found) when none does.                                             *)

Services == <<"static", "list", "new", "create", "edit", "update", "delete">>

Matches(svc, r) ==
    CASE svc = "static" -> Len(r.path) >= 1 /\ r.path[1] = SegStatic
      [] svc = "list"   -> r.verb = "GET" /\ r.path = <<>>
      [] svc = "new"    -> r.verb = "GET" /\ r.path = <<SegNew>>
      [] svc = "create" -> r.verb = "POST" /\ r.path = <<>>
      [] svc = "edit"   -> r.verb = "GET" /\ Len(r.path) = 1
      [] svc = "update" -> r.verb = "POST" /\ Len(r.path) = 1
      [] svc = "delete" -> r.verb = "POST" /\ Len(r.path) = 2
                           /\ r.path[1] = SegDelete

Route(r) ==
    LET hits == {i \in 1..Len(Services) : Matches(Services[i], r)}
    IN  IF hits = {} THEN "not_found"
        ELSE Services[CHOOSE i \in hits : \A j \in hits : i <= j]

----------------------------------------------------------------------------
(* Responses. *)

\* The templates Tera loaded at startup.
Templates == {"index.html.tera", "new.html.tera", "edit.html.tera",
              "error/404.html.tera"}

\* A tera::Context; a key that was not inserted keeps its empty value.
EmptyCtx == [posts |-> <<>>, page |-> NONE, posts_per_page |-> NONE,
             num_pages |-> NONE, post |-> {}, uri |-> <<>>]

Response(kind, status, location, template, ctx) ==
    [kind |-> kind, status |-> status, location |-> location,
     template |-> template, ctx |-> ctx]

\* The handler panicked: the request ends without a response.
Aborted == Response("aborted", 0, "", "", EmptyCtx)

\* HttpResponse::Ok().content_type("text/html").body(rendered template)
Html(template, ctx) == Response("html", 200, "", template, ctx)

\* HttpResponse::Found().append_header(("location", "/")).finish()
Found == Response("redirect", 302, "/", "", EmptyCtx)

\* error::ErrorInternalServerError
InternalError == Response("error", 500, "", "", EmptyCtx)

\* A response the framework produces without running a handler body: an
\* extractor's error (Path: 404, Form: 400), the file service's replies.
Framework(status) == Response("framework", status, "", "", EmptyCtx)

\* The handler is suspended at its next store call: no response yet.
Pending == Response("pending", 0, "", "", EmptyCtx)

\* A store call the handler awaited and the number of rows the statement
\* counted (num_pages), returned (fetch_page, find_by_id) or wrote (save,
\* delete).
Call(op, rows) == [op |-> op, rows |-> rows]

\* What a handler keeps across an await: the num_pages of list, the post
\* that delete fetched.
NoHeld == [num_pages |-> NONE, post |-> {}]

\* What a handler did: the table it left, the store calls it awaited, the
\* renders and redirects it performed, its response.
Outcome(tbl, cs, outs, rsp) ==
    [table |-> tbl, calls |-> cs, outputs |-> outs, resp |-> rsp,
     held |-> NoHeld]

\* The handler made the store calls cs and goes on, holding held, once the
\* next store call is executed.
Suspend(tbl, cs, held) ==
    [table |-> tbl, calls |-> cs, outputs |-> <<>>, resp |-> Pending,
     held |-> held]

Abort(tbl, cs) == Outcome(tbl, cs, <<>>, Aborted)

\* template.render(name, ctx).map_err(ErrorInternalServerError)? and the
\* 200 response around the body.
Rendered(tbl, cs, name, ctx) ==
    IF name \in Templates
    THEN Outcome(tbl, cs, <<"render">>, Html(name, ctx))
    ELSE Outcome(tbl, cs, <<"render">>, InternalError)

\* The same with .unwrap() on the render's result.
RenderedOrPanic(tbl, cs, name, ctx) ==
    IF name \in Templates
    THEN Outcome(tbl, cs, <<"render">>, Html(name, ctx))
    ELSE Outcome(tbl, cs, <<"render">>, Aborted)

Redirected(tbl, cs) == Outcome(tbl, cs, <<"redirect">>, Found)

----------------------------------------------------------------------------
(* The handlers: for each stretch of a handler that ends with a store call *)
(* (and, for the last one, with the response), the set of its outcomes on  *)
(* the table the store holds when the call is executed.                    *)

\* Query::<Params>::from_query(..).unwrap(), page.unwrap_or(1),
\* posts_per_page.unwrap_or(DEFAULT_POSTS_PER_PAGE).
list_params(q) ==
    [ok |-> q.page # BAD /\ q.posts_per_page # BAD,
     page |-> IF q.page = NONE THEN 1 ELSE q.page,
     posts_per_page |-> IF q.posts_per_page = NONE
                        THEN DEFAULT_POSTS_PER_PAGE ELSE q.posts_per_page]

list_ctx(posts, page, posts_per_page, num_pages) ==
    [EmptyCtx EXCEPT !.posts = posts, !.page = page,
                     !.posts_per_page = posts_per_page,
                     !.num_pages = num_pages]

\* Faulty variant: the 1-based page is passed on as it is.
list_page_index_one_based(page) == page

\* The page the handler asks the paginator for.
list_page_index(page) == page - 1

\* The last part of list: the fetched posts into the context, the render.
list_render(tbl, cs, posts, p, num_pages) ==
    Rendered(tbl, cs, "index.html.tera",
             list_ctx(posts, p.page, p.posts_per_page, num_pages))

\* page = 0: page - 1 underflows.  A build with overflow checks panics
\* there; a build without them asks for page 2^64 - 1, an offset past every
\* row, which the store answers with no rows or rejects.
list_underflow(tbl, cs, p, num_pages) ==
    {Abort(tbl, cs),
     Abort(tbl, Append(cs, Call("fetch_page", 0))),
     list_render(tbl, Append(cs, Call("fetch_page", 0)), <<>>, p, num_pages)}

\* list up to paginator.num_pages().await: the query parameters, the
\* paginator, the COUNT over the table.  A page size of 0 divides by zero
\* in num_pages.
list_num_pages_outcomes(tbl, r) ==
    LET p == list_params(r.query)
        counted == <<Call("num_pages", Cardinality(tbl))>>
    IN  IF ~p.ok THEN {Abort(tbl, <<>>)}
        ELSE IF p.posts_per_page = 0 THEN {Abort(tbl, counted)}
        ELSE {Suspend(tbl, counted,
                      [NoHeld EXCEPT
                         !.num_pages = NumPages(tbl, p.posts_per_page)])}

\* list from there on: fetch_page(page - 1).await over the table as it is
\* now, the context, the render.  e is the request in flight.
list_fetch_page_outcomes(tbl, e) ==
    LET p == list_params(e.req.query)
        num_pages == e.held.num_pages
        posts == FetchPage(tbl, p.posts_per_page, list_page_index(p.page))
    IN  IF p.page = 0 THEN list_underflow(tbl, e.calls, p, num_pages)
        ELSE {list_render(tbl, Append(e.calls, Call("fetch_page", Len(posts))),
                          posts, p, num_pages)}

new_outcomes(tbl, r) == {Rendered(tbl, <<>>, "new.html.tera", EmptyCtx)}

\* Faulty variant: an id the form supplies goes into the active model.
create_model_with_form_id(form) ==
    [id |-> IF form.id = 0 THEN NONE ELSE form.id,
     title |-> form.title, text |-> form.text]

\* Faulty variant: title and text change places.
create_model_swapped(form) ==
    [id |-> NONE, title |-> form.text, text |-> form.title]

\* post::ActiveModel { title: Set(..), text: Set(..), ..Default::default() }
create_model(form) == [id |-> NONE, title |-> form.title, text |-> form.text]

\* Faulty variant: create looks the form's id up before it saves.
create_outcomes_with_lookup(tbl, r) ==
    IF ~r.form.ok THEN {Outcome(tbl, <<>>, <<>>, Framework(400))}
    ELSE {LET cs == <<Call("find_by_id", 0), Call("save", s.rows)>>
          IN  IF s.ok THEN Redirected(s.table, cs) ELSE Abort(s.table, cs) :
            s \in Save(tbl, create_model(r.form))}

create_outcomes(tbl, r) ==
    IF ~r.form.ok THEN {Outcome(tbl, <<>>, <<>>, Framework(400))}
    ELSE {LET cs == <<Call("save", s.rows)>>
          IN  IF s.ok THEN Redirected(s.table, cs) ELSE Abort(s.table, cs) :
            s \in Save(tbl, create_model(r.form))}

\* The {id} of the path as web::Path<u64> gives it; NONE: not a u64.
path_id(r) == ParseU64(r.path[Len(r.path)])

edit_outcomes(tbl, r) ==
    LET id == path_id(r)
        found == FindById(tbl, id)
        cs == <<Call("find_by_id", Cardinality(found))>>
    IN  IF id = NONE THEN {Outcome(tbl, <<>>, <<>>, Framework(404))}
        ELSE IF found = {} THEN {Abort(tbl, cs)}
        ELSE {RenderedOrPanic(tbl, cs, "edit.html.tera",
                              [EmptyCtx EXCEPT !.post = found])}

\* Faulty variant: the id is taken from the form body.
update_model_with_form_id(id, form) ==
    [id |-> form.id, title |-> form.title, text |-> form.text]

\* post::ActiveModel { id: Set(path id), title: Set(..), text: Set(..) }
update_model(id, form) == [id |-> id, title |-> form.title, text |-> form.text]

update_outcomes(tbl, r) ==
    LET id == path_id(r)
    IN  IF id = NONE THEN {Outcome(tbl, <<>>, <<>>, Framework(404))}
        ELSE IF ~r.form.ok THEN {Outcome(tbl, <<>>, <<>>, Framework(400))}
        ELSE {LET cs == <<Call("save", s.rows)>>
              IN  IF s.ok THEN Redirected(s.table, cs)
                  ELSE Abort(s.table, cs) :
                s \in Save(tbl, update_model(id, r.form))}

\* delete up to find_by_id(id).one(conn).await and the two unwraps: the
\* post with the path id, held as an active model.
delete_find_by_id_outcomes(tbl, r) ==
    LET id == path_id(r)
        found == FindById(tbl, id)
        cs == <<Call("find_by_id", Cardinality(found))>>
    IN  IF id = NONE THEN {Outcome(tbl, <<>>, <<>>, Framework(404))}
        ELSE IF found = {} THEN {Abort(tbl, cs)}
        ELSE {Suspend(tbl, cs, [NoHeld EXCEPT !.post = found])}

\* The row the delete statement names: the one find_by_id returned.
delete_target(found) == (CHOOSE row \in found : TRUE).id

\* delete from there on: post.delete(conn).await over the table as it is
\* now, then the redirect.  A DELETE that matches no row is not an error:
\* nothing looks at the number of rows it removed.
delete_delete_outcomes(tbl, e) ==
    LET id == delete_target(e.held.post)
        removed == Cardinality(FindById(tbl, id))
    IN  {Redirected(DeleteRow(tbl, id),
                    Append(e.calls, Call("delete", removed)))}

not_found_outcomes(tbl, r) ==
    {RenderedOrPanic(tbl, <<>>, "error/404.html.tera",
                     [EmptyCtx EXCEPT !.uri = r.path])}

\* actix_files::Files at /static: GET serves the file or answers 404,
\* another method is not allowed.
static_outcomes(tbl, r) ==
    IF r.verb = "GET"
    THEN {Outcome(tbl, <<>>, <<>>, Framework(200)),
          Outcome(tbl, <<>>, <<>>, Framework(404))}
    ELSE {Outcome(tbl, <<>>, <<>>, Framework(405))}

----------------------------------------------------------------------------
(* The actions: one per store call a handler awaits. *)

\* The clients of the server.  Each has one request outstanding at a time:
\* it sends the next one when the last one is answered or aborted.
Clients == {"a", "b"}

\* A client is free to send a request.
Room == BagCardinality(inflight) < Cardinality(Clients)

\* A request in flight: the request, the store calls its handler has made,
\* what the handler holds.
Flight(r, o) == [req |-> r, calls |-> o.calls, held |-> o.held]

\* The request r, dispatched to h, ends as outcome o says.
Answer(r, h, o) ==
    /\ table' = o.table
    /\ req' = r
    /\ handler' = h
    /\ calls' = o.calls
    /\ outputs' = o.outputs
    /\ resp' = o.resp

\* Request r arrives and its handler h runs up to its first store call,
\* which the store executes; the handler ends there or stays in flight.
Begin(r, h, outcomes) ==
    /\ Room
    /\ Route(r) = h
    /\ \E o \in outcomes :
          IF o.resp = Pending
          THEN /\ inflight' = inflight (+) SetToBag({Flight(r, o)})
               /\ UNCHANGED <<table, req, handler, calls, outputs, resp>>
          ELSE /\ Answer(r, h, o)
               /\ UNCHANGED inflight

\* The handler h of the request in flight e goes on: its second store call
\* is executed and it ends.
Resume(e, h, outcomes) ==
    /\ BagIn(e, inflight)
    /\ Route(e.req) = h
    /\ inflight' = inflight (-) SetToBag({e})
    /\ \E o \in outcomes : Answer(e.req, h, o)

\* One list request is in flight at a time: two of them do not affect each
\* other, neither writes.
list_num_pages(r) ==
    /\ \A e \in BagToSet(inflight) : Route(e.req) # "list"
    /\ Begin(r, "list", list_num_pages_outcomes(table, r))
list_fetch_page(e) == Resume(e, "list", list_fetch_page_outcomes(table, e))
new(r) == Begin(r, "new", new_outcomes(table, r))
create(r) == Begin(r, "create", create_outcomes(table, r))
edit(r) == Begin(r, "edit", edit_outcomes(table, r))
update(r) == Begin(r, "update", update_outcomes(table, r))
delete_find_by_id(r) == Begin(r, "delete", delete_find_by_id_outcomes(table, r))
delete_delete(e) == Resume(e, "delete", delete_delete_outcomes(table, e))
not_found(r) == Begin(r, "not_found", not_found_outcomes(table, r))
static_files(r) == Begin(r, "static", static_outcomes(table, r))

NoRequest == Request("", <<>>, NoQuery, NoForm)

IdleTask == [pc |-> "idle", seen |-> {}]

IdleScript == [pc |-> "idle", form |-> NoForm, query |-> NoQuery,
               created |-> {}, fetched |-> {}, before |-> {},
               listing |-> EmptyCtx]

Init ==
    /\ table = {}
    /\ inflight = EmptyBag
    /\ req = NoRequest
    /\ handler = ""
    /\ calls = <<>>
    /\ outputs = <<>>
    /\ resp = Aborted
    /\ task = IdleTask
    /\ script = IdleScript

\* The requests the router hands to service h.
Routed(h) == {r \in Requests : Route(r) = h}

Dispatch == [h \in {"static", "list", "new", "create", "edit", "update",
                    "delete", "not_found"} |-> Routed(h)]

\* The requests in flight.
Flying == BagToSet(inflight)

Alone == UNCHANGED <<task, script>>

\* The server and its clients: any request whenever a client is free, any
\* request in flight resumed at any time.  Ids stop at MaxId.
Next ==
    \/ \E r \in Dispatch["list"] : list_num_pages(r) /\ Alone
    \/ \E e \in Flying : list_fetch_page(e) /\ Alone
    \/ \E r \in Dispatch["new"] : new(r) /\ Alone
    \/ \E r \in Dispatch["create"] :
          create(r) /\ MaxIdOf(table') <= MaxId /\ Alone
    \/ \E r \in Dispatch["edit"] : edit(r) /\ Alone
    \/ \E r \in Dispatch["update"] : update(r) /\ Alone
    \/ \E r \in Dispatch["delete"] : delete_find_by_id(r) /\ Alone
    \/ \E e \in Flying : delete_delete(e) /\ Alone
    \/ \E r \in Dispatch["not_found"] : not_found(r) /\ Alone
    \/ \E r \in Dispatch["static"] : static_files(r) /\ Alone

Spec == Init /\ [][Next]_vars

----------------------------------------------------------------------------
(* A client that creates a post, lists, fetches the post for editing,      *)
(* posts back what it fetched, and lists again.  It is the only client:    *)
(* no other request is served between its requests, nor between the two    *)
(* store calls of its list requests.  script.before is the table as it was *)
(* before the client's last write.                                         *)

\* Tables the server can hold when the client starts: any posts among ids
\* 1..MaxSeed, all created from the same form.
SeedTables ==
    {{[id |-> i, title |-> f.title, text |-> f.text] : i \in ids} :
        ids \in SUBSET (1..MaxSeed), f \in Forms}

ScriptInit ==
    /\ table \in SeedTables
    /\ inflight = EmptyBag
    /\ req = NoRequest
    /\ handler = ""
    /\ calls = <<>>
    /\ outputs = <<>>
    /\ resp = Aborted
    /\ task = IdleTask
    /\ script = [IdleScript EXCEPT !.pc = "start"]

ScriptCreate ==
    /\ script.pc = "start"
    /\ \E r \in Dispatch["create"] :
        /\ r.form.ok
        /\ create(r)
    /\ resp'.kind = "redirect"
    /\ script' = [script EXCEPT !.pc = "created", !.before = table,
                                !.form = req'.form,
                                !.created = table' \ table]

\* The client asks for a page >= 1 of size >= 1: the first store call of
\* list.
ScriptList ==
    /\ script.pc = "created"
    /\ \E r \in Dispatch["list"] :
        /\ list_params(r.query).ok
        /\ list_params(r.query).page >= 1
        /\ list_params(r.query).posts_per_page >= 1
        /\ list_num_pages(r)
        /\ script' = [script EXCEPT !.pc = "listing", !.query = r.query]

\* The second store call of that list, and the listing.
ScriptListed ==
    /\ script.pc = "listing"
    /\ \E e \in Flying : list_fetch_page(e)
    /\ resp'.kind = "html"
    /\ script' = [script EXCEPT !.pc = "listed", !.listing = resp'.ctx]

ScriptEdit ==
    /\ script.pc = "listed"
    /\ \E row \in script.created : edit(EditRequest(row.id))
    /\ resp'.kind = "html"
    /\ script' = [script EXCEPT !.pc = "fetched", !.fetched = resp'.ctx.post]

\* The form the client posts back: the title and text it fetched.
ScriptUpdate ==
    /\ script.pc = "fetched"
    /\ \E row \in script.fetched, form_id \in {0, 1} :
          update(Request("POST", <<NatSeg(row.id)>>, NoQuery,
                         [ok |-> TRUE, id |-> form_id, title |-> row.title,
                          text |-> row.text]))
    /\ script' = [script EXCEPT !.pc = "updated", !.before = table]

\* The same list request again, first store call.
ScriptListAgain ==
    /\ script.pc = "updated"
    /\ list_num_pages(Request("GET", <<>>, script.query, NoForm))
    /\ script' = [script EXCEPT !.pc = "listing again"]

ScriptListedAgain ==
    /\ script.pc = "listing again"
    /\ \E e \in Flying : list_fetch_page(e)
    /\ script' = [script EXCEPT !.pc = "done"]

ScriptNext ==
    \/ ScriptCreate /\ UNCHANGED task
    \/ ScriptList /\ UNCHANGED task
    \/ ScriptListed /\ UNCHANGED task
    \/ ScriptEdit /\ UNCHANGED task
    \/ ScriptUpdate /\ UNCHANGED task
    \/ ScriptListAgain /\ UNCHANGED task
    \/ ScriptListedAgain /\ UNCHANGED task

ScriptSpec == ScriptInit /\ [][ScriptNext]_vars

----------------------------------------------------------------------------
(* A list request among the creates and deletes of the other client.  One  *)
(* list request at a time is followed: task.seen is the set of contents    *)
(* the store had from the list's first store call to its second, task.pc   *)
(* is "flying" between the two and "done" while the list's response is the *)
(* last response.                                                          *)

MaxWrites == 1      \* writes served while one list request is in flight

\* The step left a request in flight: it answered none.
Suspended == BagCardinality(inflight') > BagCardinality(inflight)

\* The step of another request, as the followed list request sees it.
Witnessed ==
    /\ (task.pc = "flying" /\ table' # table)
       => Cardinality(task.seen) <= MaxWrites
    /\ task' = IF task.pc = "flying"
               THEN [task EXCEPT !.seen = @ \cup {table'}]
               ELSE IF Suspended THEN task ELSE IdleTask

ConcList ==
    /\ task.pc # "flying"
    /\ \E r \in Dispatch["list"] : list_num_pages(r)
    /\ task' = IF Suspended THEN [pc |-> "flying", seen |-> {table}]
               ELSE IdleTask

ConcListed ==
    /\ \E e \in Flying : list_fetch_page(e)
    /\ task' = [task EXCEPT !.pc = "done"]

ConcCreate ==
    /\ \E r \in Dispatch["create"] : create(r)
    /\ MaxIdOf(table') <= MaxId
    /\ Witnessed

ConcDeleteFind ==
    /\ \E r \in Dispatch["delete"] : delete_find_by_id(r)
    /\ Witnessed

ConcDeleteDelete ==
    /\ \E e \in Flying : delete_delete(e)
    /\ Witnessed

ConcNext ==
    \/ ConcList /\ UNCHANGED script
    \/ ConcListed /\ UNCHANGED script
    \/ ConcCreate /\ UNCHANGED script
    \/ ConcDeleteFind /\ UNCHANGED script
    \/ ConcDeleteDelete /\ UNCHANGED script

ConcSpec == Init /\ [][ConcNext]_vars

----------------------------------------------------------------------------
(* Vocabulary of the properties. *)

\* The number of rows of tbl that come before row in ascending id order.
Rank(tbl, row) == Cardinality({q \in tbl : q.id < row.id})

\* ceil(a / b) for b >= 1: the least n with n * b >= a.
CeilDiv(a, b) == CHOOSE n \in 0..a : n * b >= a /\ \A m \in 0..a : m * b >= a => n <= m

\* posts is the slice of tbl, in ascending id order, at positions
\* offset .. offset + size - 1 (0-based), cut at the end of the table.
IsSlice(posts, tbl, offset, size) ==
    /\ Len(posts) = IF Cardinality(tbl) <= offset THEN 0
                    ELSE Min(size, Cardinality(tbl) - offset)
    /\ \A k \in 1..Len(posts) :
          posts[k] \in tbl /\ Rank(tbl, posts[k]) = offset + k - 1

\* The page and page size a list request asks for, with the defaults.
AskedPage(r) == IF r.query.page = NONE THEN 1 ELSE r.query.page
AskedPerPage(r) == IF r.query.posts_per_page = NONE THEN 5
                   ELSE r.query.posts_per_page

IsRedirectHome(rsp) ==
    rsp.kind = "redirect" /\ rsp.status = 302 /\ rsp.location = "/"

\* The names of the store calls cs, in order.
Ops(cs) == [k \in 1..Len(cs) |-> cs[k].op]

\* The step answered (or aborted) a request: req, handler, calls, outputs
\* and resp after the step are that request's.
Answered == BagCardinality(inflight') <= BagCardinality(inflight)

----------------------------------------------------------------------------
\* C1: for page >= 1 and posts_per_page >= 1 (defaults 1 and 5), list answers
\* 200 with exactly the posts at positions (page-1)*posts_per_page up to
\* page*posts_per_page (excluded) of the table in ascending id order, and
\* num_pages = ceil(total_posts / posts_per_page).  The table is the one
\* the store holds when the response is made; total_posts is the number of
\* posts the handler's count found, which is the size of that table
\* whenever no write came between the handler's two store calls.
ListReturnsSlice ==
    (handler = "list" /\ AskedPage(req) >= 1 /\ AskedPerPage(req) >= 1)
    => /\ resp.kind = "html" /\ resp.status = 200
       /\ IsSlice(resp.ctx.posts, table,
                  (AskedPage(req) - 1) * AskedPerPage(req), AskedPerPage(req))
       /\ Len(resp.ctx.posts) <= AskedPerPage(req)
       /\ \A j, k \in 1..Len(resp.ctx.posts) :
             j < k => resp.ctx.posts[j].id < resp.ctx.posts[k].id
       /\ calls[1].op = "num_pages"
       /\ resp.ctx.num_pages = CeilDiv(calls[1].rows, AskedPerPage(req))
       /\ calls[1].rows = Cardinality(table)
          => resp.ctx.num_pages
                = CeilDiv(Cardinality(table), AskedPerPage(req))

\* A second page of one post out of two, both counted.
ListSecondPage ==
    /\ handler = "list" /\ resp.kind = "html"
    /\ req.query.page = 2 /\ req.query.posts_per_page = 1
    /\ Len(resp.ctx.posts) = 1 /\ resp.ctx.num_pages = 2
    /\ Rank(table, resp.ctx.posts[1]) = 1
    /\ calls[1].rows = Cardinality(table)

\* C2: a create that succeeds adds exactly one post, with the form's title
\* and text and an id no post of the table had, whatever id the form
\* carries; every other post is unchanged; the response is 302 to "/".
CreateAddsOnePost ==
    [][(Answered /\ handler' = "create" /\ resp'.kind = "redirect")
       => /\ \E row \in table' :
               /\ row \notin table
               /\ table' = table \cup {row}
               /\ \A q \in table : q.id # row.id
               /\ row.title = req'.form.title
               /\ row.text = req'.form.text
          /\ Cardinality(table') = Cardinality(table) + 1
          /\ IsRedirectHome(resp')]_vars

\* A create whose form carried id 1 while post 1 existed: post 1 is still
\* there with its own content, next to the new post.
CreateIgnoredFormId ==
    /\ handler = "create" /\ resp.kind = "redirect"
    /\ req.form.id = 1
    /\ [id |-> 1, title |-> "T", text |-> "X"] \in table
    /\ \E row \in table : row.id # 1 /\ row.title = "New" /\ row.text = "Y"

\* C4: an update that succeeds replaces the title and text of the post whose
\* id is the path id with the form's, keeps that id, leaves the number of
\* posts and every other post unchanged, makes a fetch of that id return the
\* new content, and answers 302 to "/".
UpdateReplacesPost ==
    [][(Answered /\ handler' = "update" /\ resp'.kind = "redirect")
       => LET id == ParseU64(req'.path[1])
              replaced == [id |-> id, title |-> req'.form.title,
                      text |-> req'.form.text]
          IN  /\ \E old \in table :
                    old.id = id /\ table' = (table \ {old}) \cup {replaced}
              /\ Cardinality(table') = Cardinality(table)
              /\ \A o \in edit_outcomes(table', EditRequest(id)) :
                    o.resp.kind = "html" /\ o.resp.ctx.post = {replaced}
              /\ IsRedirectHome(resp')]_vars

\* Post 2 updated through a form that carried id 1: post 2 has the form's
\* content, post 1 is as it was.
UpdatedByPathId ==
    /\ handler = "update" /\ resp.kind = "redirect"
    /\ req.path = <<NatSeg(2)>> /\ req.form.id = 1
    /\ table = {[id |-> 1, title |-> "T", text |-> "X"],
                [id |-> 2, title |-> "New", text |-> "Y"]}

\* C5: a delete that succeeds on a post that exists (the post is in the
\* table when the DELETE is executed) removes exactly the post with the
\* path id: one post less, every other post unchanged; after any delete
\* that succeeds a fetch of that id finds nothing and fails, and the
\* response is 302 to "/".
DeleteRemovesPost ==
    [][(Answered /\ handler' = "delete" /\ resp'.kind = "redirect")
       => LET id == ParseU64(req'.path[2])
          IN  /\ table' = {row \in table : row.id # id}
              /\ \A old \in table :
                    old.id = id
                    => /\ table' = table \ {old}
                       /\ Cardinality(table') = Cardinality(table) - 1
              /\ \A o \in edit_outcomes(table', EditRequest(id)) :
                    o.resp.kind = "aborted"
              /\ IsRedirectHome(resp')]_vars

\* Post 1 deleted while another post stays.
DeletedOneOfTwo ==
    /\ handler = "delete" /\ resp.kind = "redirect"
    /\ req.path = <<SegDelete, NatSeg(1)>>
    /\ calls[2].rows = 1
    /\ Cardinality(table) = 1
    /\ \A row \in table : row.id > 1

\* The six routes as the interface lists them, {id} standing for a post id
\* (a decimal number), and the /static prefix.
IsIdSeg(seg) == seg # <<>> /\ \A k \in 1..Len(seg) : IsDigit(seg[k])

IsListedRoute(r) ==
    \/ r.verb = "GET" /\ r.path = <<>>
    \/ r.verb = "GET" /\ r.path = <<SegNew>>
    \/ r.verb = "POST" /\ r.path = <<>>
    \/ r.verb = "GET" /\ Len(r.path) = 1 /\ IsIdSeg(r.path[1])
    \/ r.verb = "POST" /\ Len(r.path) = 1 /\ IsIdSeg(r.path[1])
    \/ r.verb = "POST" /\ Len(r.path) = 2 /\ r.path[1] = SegDelete
       /\ IsIdSeg(r.path[2])

IsUnderStatic(r) == Len(r.path) >= 1 /\ r.path[1] = SegStatic

\* C6: every request that is none of the six routes and not under /static
\* (GET /does-not-exist, for one) is served by not_found: the 404 template
\* with the requested path in it, status 200.
UndefinedPathServedByNotFound ==
    (req # NoRequest /\ ~IsListedRoute(req) /\ ~IsUnderStatic(req))
    => /\ handler = "not_found"
       /\ resp.kind = "html" /\ resp.status = 200
       /\ resp.template = "error/404.html.tera"
       /\ resp.ctx.uri = req.path

\* C8: when the path id matches no post in the table, edit, update and
\* delete do not answer 200 or 302 and leave the table as it was; once the
\* extractors have accepted the request (the id is a number, update's form
\* is valid) the handler aborts.  The table is the one the store holds
\* when the handler ends.
MissingIdAborts ==
    [][(/\ Answered
        /\ handler' \in {"edit", "update", "delete"}
        /\ FindById(table, path_id(req')) = {})
       => /\ resp'.status \notin {200, 302}
          /\ resp'.kind \notin {"html", "redirect"}
          /\ table' = table
          /\ (path_id(req') # NONE /\ (handler' = "update" => req'.form.ok))
             => resp'.kind = "aborted"]_vars

\* C8 as the code has it: the same when the path id matches no post at the
\* handler's first store call (the lookup of edit and delete, the save of
\* update).  A delete whose lookup found the post answers 302 whatever the
\* table holds when its DELETE is executed: when another request removed
\* the post in between, it removes nothing.
MissingIdAtFirstCallAborts ==
    [][(Answered /\ handler' \in {"edit", "update", "delete"})
       => /\ (Len(calls') <= 1 /\ FindById(table, path_id(req')) = {})
             => /\ resp'.status \notin {200, 302}
                /\ resp'.kind \notin {"html", "redirect"}
                /\ table' = table
                /\ (/\ path_id(req') # NONE
                    /\ handler' = "update" => req'.form.ok)
                   => /\ resp'.kind = "aborted"
                      /\ Len(calls') = 1 /\ calls'[1].rows = 0
          /\ (calls' # <<>> /\ calls'[1].rows = 0)
             => resp'.kind = "aborted" /\ table' = table
          /\ Len(calls') = 2
             => /\ handler' = "delete" /\ calls'[1].rows = 1
                /\ IsRedirectHome(resp')
                /\ calls'[2].rows = Cardinality(FindById(table, path_id(req')))]_vars

\* An update of id 2 aborted next to a table that holds post 1 only.
UpdateOfMissingIdAborted ==
    /\ handler = "update" /\ resp.kind = "aborted"
    /\ req.path = <<NatSeg(2)>> /\ req.form.ok
    /\ calls = <<Call("save", 0)>>
    /\ table = {[id |-> 1, title |-> "T", text |-> "X"]}

SevenHandlers == {"list", "new", "create", "edit", "update", "delete",
                  "not_found"}

\* C9: a request is dispatched to one handler, the one the router picks,
\* and that handler performs at most one store call and at most one render
\* or redirect.
AtMostOneStoreCall ==
    handler \in SevenHandlers
    => /\ handler = Route(req)
       /\ Len(calls) <= 1
       /\ Len(outputs) <= 1

\* C9 as the code has it: at most two store calls, two only in list
\* (num_pages, then fetch_page) and in delete (find_by_id, then delete),
\* none in new and not_found; at most one render or redirect.
AtMostTwoStoreCalls ==
    handler \in SevenHandlers
    => /\ handler = Route(req)
       /\ Len(calls) <= 2
       /\ Len(outputs) <= 1
       /\ Len(calls) = 2 => handler \in {"list", "delete"}
       /\ handler \in {"new", "not_found"} => calls = <<>>
       /\ (handler = "list" /\ resp.kind = "html")
          => Ops(calls) = <<"num_pages", "fetch_page">>
       /\ (handler = "delete" /\ resp.kind = "redirect")
          => Ops(calls) = <<"find_by_id", "delete">>

\* A listing that was answered after two store calls.
ListMadeTwoCalls ==
    /\ handler = "list" /\ resp.kind = "html" /\ Len(calls) = 2
    /\ Len(outputs) = 1 /\ table # {}

----------------------------------------------------------------------------
(* Properties of the client's run (ScriptSpec). *)

\* The client listed page 1 with the default page size.
ListedFirstPage ==
    /\ script.pc = "listed"
    /\ AskedPage(Request("GET", <<>>, script.query, NoForm)) = 1
    /\ script.query.posts_per_page = NONE

\* The listing holds a post with the created form's title and text under
\* an id that no post had before the create.
ListingHasCreated ==
    \E k \in 1..Len(script.listing.posts) :
        LET post == script.listing.posts[k]
        IN  /\ post.title = script.form.title
            /\ post.text = script.form.text
            /\ post \in script.created
            /\ \A q \in script.before : q.id # post.id

\* The posts that come before the created one in ascending id order.
OlderThanCreated ==
    {q \in script.before : \A row \in script.created : q.id < row.id}

\* C3: create(T, X), then list page 1 with the defaults: the listing holds a
\* post with title T, text X and a newly assigned id, whatever the table
\* held before.
CreatedPostOnFirstPage == ListedFirstPage => ListingHasCreated

\* C3 as the code has it: the listing holds the new post exactly when fewer
\* than five posts come before it in ascending id order, which is so
\* whenever the table held at most four posts before the create.
CreatedPostOnFirstPageIfRoom ==
    ListedFirstPage
    => /\ ListingHasCreated <=> Cardinality(OlderThanCreated) < 5
       /\ Cardinality(script.before) <= 4 => ListingHasCreated

\* The new post listed on page 1 after four older ones.
CreatedPostListedFifth ==
    /\ ListedFirstPage
    /\ Cardinality(script.before) = 4
    /\ Len(script.listing.posts) = 5
    /\ script.listing.posts[5] \in script.created
    /\ ListingHasCreated

\* C7: create(T, X) gives post i; after fetching it with edit, an update of
\* i with the title and text it holds leaves the table as it was before the
\* update, and the listing after the update equals the listing before it.
RoundTripChangesNothing ==
    /\ script.pc \in {"updated", "listing again"} => IsRedirectHome(resp)
    /\ script.pc \in {"updated", "listing again", "done"}
       => /\ table = script.before
          /\ script.created \subseteq table
    /\ script.pc = "done"
       => /\ resp.kind = "html"
          /\ resp.ctx = script.listing

\* The round trip done next to older posts of other content, with a
\* listing that shows the post.
RoundTripDone ==
    /\ script.pc = "done"
    /\ script.form.title = "New"
    /\ \E q \in table : q.title = "T"
    /\ \E k \in 1..Len(resp.ctx.posts) : resp.ctx.posts[k] \in script.created
    /\ script.fetched = script.created

----------------------------------------------------------------------------
(* Properties of a list request among concurrent writes (ConcSpec). *)

\* The list request followed is answered with a page: it asked for a page
\* >= 1 of size >= 1 and its response is the last one.
ListAnswered ==
    /\ task.pc = "done"
    /\ handler = "list" /\ resp.kind = "html"
    /\ AskedPage(req) >= 1

\* The answer is what store content s gives.
NumPagesOf(s) ==
    resp.ctx.num_pages = CeilDiv(Cardinality(s), AskedPerPage(req))

PostsOf(s) ==
    IsSlice(resp.ctx.posts, s, (AskedPage(req) - 1) * AskedPerPage(req),
            AskedPerPage(req))

\* C10: num_pages and posts of one list response fit one state of the
\* store, reached during the request.
ListFitsOneStoreState ==
    ListAnswered => \E s \in task.seen : NumPagesOf(s) /\ PostsOf(s)

\* C10 as the code has it: num_pages fits a state of the store reached
\* during the request and posts fits a state reached during the request,
\* not always the same one; they are the same one when no write went
\* through in between.
ListFitsTwoStoreStates ==
    ListAnswered
    => /\ \E s \in task.seen : NumPagesOf(s)
       /\ \E s \in task.seen : PostsOf(s)
       /\ Cardinality(task.seen) = 1
          => \E s \in task.seen : NumPagesOf(s) /\ PostsOf(s)

\* A response that says one page and shows no post: the only post was
\* deleted between the two store calls.
ListTornByDelete ==
    /\ ListAnswered
    /\ resp.ctx.num_pages = 1 /\ resp.ctx.posts = <<>> /\ AskedPage(req) = 1
    /\ Cardinality(task.seen) = 2

====
